---- MODULE Spec2Model ----
(***************************************************************************)
(* A model of the analytics API of src/app.py: the API-key guard, the      *)
(* in-memory TTL cache, the five report handlers with their SQL            *)
(* aggregations, and the shaping of the recommendation rows.               *)
(*                                                                         *)
(* A request is handled in steps (entry up to the cache lookup, each SQL   *)
(* statement, the cache store and response), so that requests served by    *)
(* different threads interleave. The store is an external database: rows   *)
(* are added to it by other systems while requests are in flight.          *)
(***************************************************************************)
EXTENDS Integers, Sequences, FiniteSets, TLC

\* Bounds of the model.
MaxRows == 22        \* borrowing rows the store can hold (a prefix of RowPool)
MaxInserts == 1      \* rows added to the store during a run
MaxTicks == 1        \* clock advances during a run
MaxRequests == 2     \* requests received during a run

(***************************************************************************)
(* Python values. A value that can be None, or whose truthiness the code   *)
(* tests, is tagged with its type.                                         *)
(***************************************************************************)
None == [t |-> "None"]
PyStr(s) == [t |-> "str", v |-> s]
PyInt(n) == [t |-> "int", v |-> n]
PyList(s) == [t |-> "list", v |-> s]
PyDict(d) == [t |-> "dict", v |-> d]
PyTuple(s) == [t |-> "tuple", v |-> s]

\* bool(x): None, "", 0 and empty containers are falsy.
Truthy(x) ==
  CASE x.t = "None" -> FALSE
    [] x.t = "str" -> x.v # ""
    [] x.t = "int" -> x.v # 0
    [] x.t = "list" -> Len(x.v) > 0
    [] x.t = "tuple" -> Len(x.v) > 0
    [] x.t = "dict" -> DOMAIN x.v # {}
    [] x.t = "DictRow" -> DOMAIN x.v # {}

\* d.get(k): the value under k, None when k is absent.
Get(d, k) == IF k \in DOMAIN d THEN d[k] ELSE None

EmptyMap == [k \in {} |-> None]

Min(a, b) == IF a < b THEN a ELSE b

\* s[:k]
Take(s, k) == SubSeq(s, 1, Min(k, Len(s)))

(***************************************************************************)
(* int(text), as request.args.get(..., type=int) applies it to the raw     *)
(* query-string value: an optional sign and at least one decimal digit;    *)
(* anything else raises ValueError, modelled as None. Text is a sequence   *)
(* of characters.                                                          *)
(***************************************************************************)
DigitVal == [c \in {"0", "1", "2", "3", "4", "5", "6", "7", "8", "9"} |->
  CASE c = "0" -> 0 [] c = "1" -> 1 [] c = "2" -> 2 [] c = "3" -> 3
    [] c = "4" -> 4 [] c = "5" -> 5 [] c = "6" -> 6 [] c = "7" -> 7
    [] c = "8" -> 8 [] c = "9" -> 9]

IsDigits(s) == Len(s) > 0 /\ \A i \in 1..Len(s) : s[i] \in DOMAIN DigitVal

RECURSIVE DigitsValue(_, _)
DigitsValue(s, acc) ==
  IF s = <<>> THEN acc ELSE DigitsValue(Tail(s), acc * 10 + DigitVal[Head(s)])

ParseInt(s) ==
  IF s # <<>> /\ Head(s) \in {"-", "+"}
  THEN IF IsDigits(Tail(s))
       THEN PyInt((IF Head(s) = "-" THEN -1 ELSE 1) * DigitsValue(Tail(s), 0))
       ELSE None
  ELSE IF IsDigits(s) THEN PyInt(DigitsValue(s, 0)) ELSE None

\* request.args.get(name, default=default, type=int)
ArgInt(args, name, default) ==
  IF name \notin DOMAIN args THEN default
  ELSE LET p == ParseInt(args[name]) IN IF p = None THEN default ELSE p

(***************************************************************************)
(* The store. SQL values that can be NULL are tagged. Times are in days.   *)
(***************************************************************************)
NULL == [null |-> TRUE]
V(x) == [null |-> FALSE, v |-> x]

\* NOW() and date_trunc('month', NOW()) of the database clock.
DbClock == [now |-> 100, month_start |-> 90]

\* items(id, name, category)
Items == 1..8
ItemName == [i \in Items |->
  CASE i = 1 -> "A" [] i = 2 -> "B" [] i = 3 -> "C" [] i = 4 -> "D"
    [] i = 5 -> "E" [] i = 6 -> "F" [] i = 7 -> "G" [] i = 8 -> "H"]
ItemCategory == [i \in Items |->
  CASE i = 1 -> V(<<"F">>) [] i = 2 -> V(<<>>) [] i = 3 -> V(<<" ", " ">>)
    [] i = 4 -> NULL [] i = 5 -> V(<<"S">>) [] i = 6 -> V(<<" ", "F", " ">>)
    [] i = 7 -> V(<<"S">>) [] i = 8 -> V(<<"F">>)]

B(u, i, a, d, r) ==
  [user_id |-> u, item_id |-> i, approval_date |-> a, due_date |-> d,
   return_date |-> r]

\* The borrowings the store can hold, in the order they are recorded; the
\* store holds the first db of them (the row's id is its position).
RowPool == <<
  B(1, 1, V(60), V(74), V(70)),
  B(1, 2, V(92), V(106), NULL),
  B(2, 1, V(80), V(94), NULL),
  B(2, 3, V(85), V(99), V(95)),
  B(5, 8, V(40), V(54), V(50)),
  B(5, 8, V(93), V(107), NULL),
  B(5, 7, V(93), V(107), V(97)),
  B(5, 6, NULL, NULL, NULL),
  B(3, 1, NULL, V(90), NULL),
  B(3, 1, V(96), V(110), NULL),
  B(3, 4, V(96), V(110), V(98)),
  B(2, 5, V(99), V(113), NULL),
  B(3, 5, V(70), V(84), NULL),
  B(4, 1, V(50), V(64), V(60)),
  B(4, 1, V(65), V(79), V(75)),
  B(4, 1, V(80), V(94), V(91)),
  B(4, 1, V(95), V(109), NULL),
  B(4, 6, V(95), V(109), NULL),
  B(2, 7, V(99), V(113), NULL),
  B(4, 7, V(99), V(113), NULL),
  B(3, 8, V(100), V(114), NULL),
  B(4, 8, V(94), V(108), V(99)),
  B(5, 4, V(100), V(114), NULL),
  B(1, 3, V(100), V(114), NULL) >>

\* The sizes of the store when the service starts: empty, one borrower, the
\* two-borrower store of the recommendation example, and an almost full one.
InitialRows == {0, 2, 4, MaxRows - 1}

\* The rows of borrowings when the store holds n of them.
Borrowings(n) == 1..n

\* Every order of the rows S by descending rank k: rows of equal rank come
\* in any order.
RECURSIVE OrdersDesc(_)
OrdersDesc(S) ==
  IF S = {} THEN {<<>>}
  ELSE LET tops == {x \in S : \A y \in S : y.k <= x.k}
       IN UNION {{<<x>> \o s : s \in OrdersDesc(S \ {x})} : x \in tops}

Range(s) == {s[j] : j \in 1..Len(s)}

RECURSIVE SumCounts(_)
SumCounts(S) ==
  IF S = {} THEN 0
  ELSE LET x == CHOOSE y \in S : TRUE IN x.co_count + SumCounts(S \ {x})

(***************************************************************************)
(* The SQL statements of the handlers, evaluated on the store holding its  *)
(* first n rows. Each yields the set of results the engine may return:     *)
(* rows that an ORDER BY leaves tied come in any order.                    *)
(***************************************************************************)

\* q of top_books: COUNT(b.id) per item, ORDER BY borrow_count DESC LIMIT 5.
q_top_books(n) ==
  LET grouped == {[k |-> Cardinality({b \in Borrowings(n) : RowPool[b].item_id = i}),
                   id |-> i] : i \in {RowPool[b].item_id : b \in Borrowings(n)}}
  IN {[j \in 1..Len(o) |->
        [id |-> o[j].id, name |-> ItemName[o[j].id], borrow_count |-> o[j].k]] :
      o \in {Take(s, 5) : s \in OrdersDesc(grouped)}}

\* q_user_items of recs: SELECT DISTINCT b.item_id ... WHERE b.user_id = uid.
q_user_items(n, uid) ==
  {RowPool[b].item_id : b \in {j \in Borrowings(n) : RowPool[j].user_id = uid}}

\* The CTE co of q_recs: b1 JOIN b2 on the same user and different items,
\* b1's item among the user's, grouped by (rec_item, reason_item) with COUNT(*).
co(n, uid) ==
  LET user_items == q_user_items(n, uid)
      b1s == {b \in Borrowings(n) : RowPool[b].item_id \in user_items}
      joined == {p \in b1s \X Borrowings(n) :
                   /\ RowPool[p[1]].user_id = RowPool[p[2]].user_id
                   /\ RowPool[p[1]].item_id # RowPool[p[2]].item_id}
      groups == {<<RowPool[p[2]].item_id, RowPool[p[1]].item_id>> : p \in joined}
  IN {[rec_item |-> g[1], reason_item |-> g[2],
       co_count |-> Cardinality({p \in joined :
                      /\ RowPool[p[2]].item_id = g[1]
                      /\ RowPool[p[1]].item_id = g[2]})] : g \in groups}

\* The CTE scores of q_recs: SUM(co_count) per rec_item (k is the score).
scores(coRows) ==
  {[rec_item |-> r, k |-> SumCounts({c \in coRows : c.rec_item = r})] :
   r \in {c.rec_item : c \in coRows}}

\* Mutant: the NOT IN (SELECT item_id FROM user_items) is missing.
filtered_keeps_borrowed(scoreRows, user_items) ==
  {Range(Take(o, 10)) : o \in OrdersDesc(scoreRows)}

\* The CTE filtered of q_recs: rec_item NOT IN user_items, ORDER BY score
\* DESC LIMIT 10. One set of kept rows per order the engine may choose.
filtered(scoreRows, user_items) ==
  {Range(Take(o, 10)) :
   o \in OrdersDesc({s \in scoreRows : s.rec_item \notin user_items})}

\* json_agg(json_build_object('item_id', ..., 'title', ..., 'count', ...)
\*          ORDER BY c.co_count DESC) over the co rows of one rec_item.
json_agg(coRows, rec) ==
  {[j \in 1..Len(o) |->
     [item_id |-> o[j].reason_item, title |-> ItemName[o[j].reason_item],
      count |-> o[j].co_count]] :
   o \in OrdersDesc({[k |-> c.co_count, reason_item |-> c.reason_item,
                      co_count |-> c.co_count] :
                     c \in {x \in coRows : x.rec_item = rec}})}

\* q_recs of recs: the final SELECT over filtered JOIN co JOIN items,
\* GROUP BY rec_item, ORDER BY score DESC LIMIT 5.
q_recs(n, uid) ==
  LET coRows == co(n, uid)
      ranked == UNION {{Take(o, 5) : o \in OrdersDesc(f)} :
                       f \in filtered(scores(coRows), q_user_items(n, uid))}
      row(f) == {[id |-> f.rec_item, name |-> ItemName[f.rec_item], score |-> f.k,
                  reasons |-> a] : a \in json_agg(coRows, f.rec_item)}
      RECURSIVE rowsOf(_)
      rowsOf(fs) == IF fs = <<>> THEN {<<>>}
                    ELSE {<<r>> \o rest : r \in row(Head(fs)),
                                          rest \in rowsOf(Tail(fs))}
  IN UNION {rowsOf(fs) : fs \in ranked}

\* q of borrowings_trend: COUNT(*) per day of approval_date within the last
\* `days` days, rows with a NULL approval_date excluded, ORDER BY day ASC.
q_borrowings_trend(n, days) ==
  LET kept == {k \in Borrowings(n) :
                 /\ ~RowPool[k].approval_date.null
                 /\ RowPool[k].approval_date.v >= DbClock.now - days}
      dayOf(k) == RowPool[k].approval_date.v
      allDays == {dayOf(k) : k \in kept}
      RECURSIVE asc(_)
      asc(S) == IF S = {} THEN <<>>
                ELSE LET d == CHOOSE x \in S : \A y \in S : x <= y
                     IN <<[day |-> d,
                           count |-> Cardinality({k \in kept : dayOf(k) = d})]>>
                        \o asc(S \ {d})
  IN {asc(allDays)}

\* TRIM(text): leading and trailing spaces removed.
RECURSIVE TrimLeft(_)
TrimLeft(s) == IF s # <<>> /\ Head(s) = " " THEN TrimLeft(Tail(s)) ELSE s
RECURSIVE TrimRight(_)
TrimRight(s) ==
  IF s # <<>> /\ s[Len(s)] = " " THEN TrimRight(SubSeq(s, 1, Len(s) - 1)) ELSE s
Uncategorised == <<"U", "n", "c", "a", "t", "e", "g", "o", "r", "i", "s", "e", "d">>

\* COALESCE(NULLIF(TRIM(i.category), ''), 'Uncategorised')
CategoryLabel(c) ==
  LET trimmed == IF c.null THEN NULL ELSE V(TrimLeft(TrimRight(c.v)))
      nullif == IF ~trimmed.null /\ trimmed.v = <<>> THEN NULL ELSE trimmed
  IN IF nullif.null THEN Uncategorised ELSE nullif.v

\* q of top_categories: COUNT(b.id) per category label, ORDER BY count DESC LIMIT 6.
q_top_categories(n) ==
  LET labelOf(k) == CategoryLabel(ItemCategory[RowPool[k].item_id])
      grouped == {[k |-> Cardinality({b \in Borrowings(n) : labelOf(b) = l}),
                   category |-> l] : l \in {labelOf(b) : b \in Borrowings(n)}}
  IN {[j \in 1..Len(o) |-> [category |-> o[j].category, count |-> o[j].k]] :
      o \in {Take(s, 6) : s \in OrdersDesc(grouped)}}

\* SUM(CASE WHEN cond THEN 1 ELSE 0 END)::int over borrowings: the number of
\* rows satisfying cond, and NULL (not 0) when there is no row to sum.
SumCase(n, cond(_)) ==
  IF Borrowings(n) = {} THEN NULL
  ELSE V(Cardinality({k \in Borrowings(n) : cond(k)}))

\* q of overdue_stats: an aggregate without GROUP BY returns exactly one row.
\* A comparison with a NULL date is not true.
q_overdue_stats(n) ==
  LET overdue(k) == /\ RowPool[k].return_date.null
                    /\ ~RowPool[k].due_date.null
                    /\ RowPool[k].due_date.v < DbClock.now
      borrowed(k) == RowPool[k].return_date.null
      returned(k) == /\ ~RowPool[k].return_date.null
                     /\ RowPool[k].return_date.v >= DbClock.month_start
  IN {<<[overdue_now |-> SumCase(n, overdue),
         borrowed_now |-> SumCase(n, borrowed),
         returned_this_month |-> SumCase(n, returned)]>>}

\* psycopg2's conversion of a column value: NULL is None, an integer an int.
ToPy(x) == IF x.null THEN None ELSE PyInt(x.v)

(***************************************************************************)
(* JSON text, as a sequence of tokens. json_agg(json_build_object(...))    *)
(* arrives either decoded (a list of dicts) or as text that json.loads     *)
(* decodes.                                                                *)
(***************************************************************************)
Punct(c) == [p |-> c]
NumTok(n) == [n |-> n]
StrTok(x) == [s |-> x]

RECURSIVE JsonDumps(_)
JsonDumps(reasons) ==
  IF reasons = <<>> THEN <<Punct("]")>>
  ELSE <<Punct("{"), NumTok(Head(reasons).item_id), StrTok(Head(reasons).title),
         NumTok(Head(reasons).count), Punct("}")>> \o JsonDumps(Tail(reasons))

JsonText(reasons) == <<Punct("[")>> \o JsonDumps(reasons)

RECURSIVE JsonObjects(_)
JsonObjects(toks) ==
  IF Head(toks) = Punct("]") THEN <<>>
  ELSE <<[item_id |-> toks[2].n, title |-> toks[3].s, count |-> toks[4].n]>>
       \o JsonObjects(SubSeq(toks, 6, Len(toks)))

\* json.loads(text)
JsonLoads(toks) == JsonObjects(Tail(toks))

\* The reasons column as the driver hands it over.
Wire(row, wire) ==
  [row EXCEPT !.reasons = IF wire = "text" THEN PyStr(JsonText(row.reasons))
                          ELSE PyList(row.reasons)]

(***************************************************************************)
(* State.                                                                  *)
(***************************************************************************)
VARIABLES
  API_KEY,    \* os.getenv("API_KEY"): None or a string
  db,         \* the store holds the first db rows of RowPool
  inserts,    \* rows added during the run
  now,        \* time.time(), in seconds
  ticks,      \* clock advances so far
  cache,      \* _cache: key -> (data, ts)
  setLog,     \* history: key -> the arguments and time of the last cache_set
  inflight,   \* the requests between their cache lookup and their response
  nreq,       \* requests received so far
  ev          \* the step just taken and the response it sent, if any

vars == <<API_KEY, db, inserts, now, ticks, cache, setLog, inflight, nreq, ev>>

NoEvent == [step |-> "none"]

\* Requests: a path, the headers and the query-string arguments.
Protected ==
  {"/top-books", "/recs", "/borrowings-trend", "/top-categories", "/overdue-stats"}
HeaderSets ==
  {EmptyMap, "X-API-KEY" :> PyStr("secret"), "X-API-KEY" :> PyStr("wrong")}
UserIdTexts == {<<"a">>, <<"-", "1">>, <<"0">>, <<"1">>, <<"2">>}
DaysTexts == {<<"7">>}
ArgSets(path) ==
  CASE path = "/recs" -> {EmptyMap} \cup {"user_id" :> x : x \in UserIdTexts}
    [] path = "/borrowings-trend" -> {EmptyMap} \cup {"days" :> x : x \in DaysTexts}
    [] OTHER -> {EmptyMap}
RequestsTo(path) ==
  {[path |-> path, headers |-> h, args |-> a] : h \in HeaderSets, a \in ArgSets(path)}

\* How far the clock moves in one advance.
TickSteps == {60, 61, 301}

(***************************************************************************)
(* require_api_key, cache_get, cache_set                                   *)
(***************************************************************************)
\* Mutant: a request without the header passes the guard.
require_api_key_absent_ok(headers) ==
  IF ~Truthy(API_KEY) THEN None
  ELSE LET key == Get(headers, "X-API-KEY")
       IN IF key # None /\ key # API_KEY
          THEN PyTuple(<<PyDict([error |-> "Unauthorized"]), 401>>)
          ELSE None

require_api_key(headers) ==
  IF ~Truthy(API_KEY) THEN None
  ELSE LET key == Get(headers, "X-API-KEY")
       IN IF key # API_KEY
          THEN PyTuple(<<PyDict([error |-> "Unauthorized"]), 401>>)
          ELSE None

\* Mutant: an entry expires when its age reaches the TTL.
cache_get_expires_at_ttl(k, ttl) ==
  LET v == Get(cache, k)
  IN IF ~Truthy(v) THEN None
     ELSE IF now - v.v[2] >= ttl THEN None ELSE v.v[1]

cache_get(k, ttl) ==
  LET v == Get(cache, k)
  IN IF ~Truthy(v) THEN None
     ELSE LET data == v.v[1]
              ts == v.v[2]
          IN IF now - ts > ttl THEN None ELSE data

\* Mutant: an existing entry is kept (setdefault).
cache_set_keeps_first(k, data) == cache @@ (k :> PyTuple(<<data, now>>))

\* The value of _cache after cache_set(k, data).
cache_set(k, data) == (k :> PyTuple(<<data, now>>)) @@ cache

\* `if cached: return jsonify(cached)`
IsHit(cached) == Truthy(cached)

(***************************************************************************)
(* The handlers, from the route to the cache lookup.                       *)
(***************************************************************************)
NewReq(req) ==
  [id |-> nreq + 1, path |-> req.path, key |-> <<>>, ttl |-> 0, arg |-> None,
   pc |-> "entry", rows |-> None, seen |-> None, reads |-> 0, queries |-> 0,
   snap |-> 0, wire |-> "none"]

\* The handler returns a response without touching cache or store.
Return(req, r, status, body) ==
  /\ ev' = [step |-> "entry", req |-> req, r |-> [r EXCEPT !.pc = "done"],
            status |-> status, body |-> body, pre |-> cache]
  /\ UNCHANGED <<cache, setLog, inflight>>

\* cached = cache_get(key, ttl); if cached: return jsonify(cached); otherwise
\* the handler goes on to the store.
Lookup(req, key, ttl, arg) ==
  LET cached == cache_get(key, ttl)
      r == [NewReq(req) EXCEPT !.key = key, !.ttl = ttl, !.arg = arg, !.reads = 1,
                               !.seen = Get(cache, key)]
  IN IF IsHit(cached)
     THEN Return(req, r, 200, cached)
     ELSE /\ ev' = [step |-> "entry", req |-> req, r |-> [r EXCEPT !.pc = "query"],
                    status |-> 0, body |-> None, pre |-> cache]
          /\ inflight' = inflight \cup {[r EXCEPT !.pc = "query"]}
          /\ UNCHANGED <<cache, setLog>>

Receive(req) ==
  /\ nreq < MaxRequests
  /\ nreq' = nreq + 1
  /\ UNCHANGED <<API_KEY, db, inserts, now, ticks>>

health(req) ==
  /\ Receive(req)
  /\ Return(req, NewReq(req), 200, PyDict([ok |-> TRUE]))

root(req) ==
  /\ Receive(req)
  /\ Return(req, NewReq(req), 200, PyDict([service |-> "LMS Emerging-Tech API"]))

top_books(req) ==
  /\ Receive(req)
  /\ LET auth == require_api_key(req.headers)
     IN IF Truthy(auth) THEN Return(req, NewReq(req), auth.v[2], auth.v[1])
        ELSE Lookup(req, <<"top-books">>, 60, None)

recs(req) ==
  /\ Receive(req)
  /\ LET auth == require_api_key(req.headers)
         user_id == ArgInt(req.args, "user_id", None)
     IN IF Truthy(auth) THEN Return(req, NewReq(req), auth.v[2], auth.v[1])
        ELSE IF ~Truthy(user_id)
             THEN Return(req, NewReq(req), 400,
                         PyDict([error |-> "user_id is required"]))
             ELSE Lookup(req, <<"recs:", user_id.v>>, 60, user_id)

borrowings_trend(req) ==
  /\ Receive(req)
  /\ LET auth == require_api_key(req.headers)
         days == ArgInt(req.args, "days", PyInt(30))
     IN IF Truthy(auth) THEN Return(req, NewReq(req), auth.v[2], auth.v[1])
        ELSE Lookup(req, <<"borrowings-trend:", days.v>>, 120, days)

top_categories(req) ==
  /\ Receive(req)
  /\ LET auth == require_api_key(req.headers)
     IN IF Truthy(auth) THEN Return(req, NewReq(req), auth.v[2], auth.v[1])
        ELSE Lookup(req, <<"top-categories">>, 300, None)

overdue_stats(req) ==
  /\ Receive(req)
  /\ LET auth == require_api_key(req.headers)
     IN IF Truthy(auth) THEN Return(req, NewReq(req), auth.v[2], auth.v[1])
        ELSE Lookup(req, <<"overdue-stats">>, 60, None)

(***************************************************************************)
(* The handlers, from the store to the response.                           *)
(***************************************************************************)

\* rows = [dict(r) for r in cur.fetchall()]
RowsOf(result) == PyList(result)

\* row = cur.fetchone(); out = dict(row) if row else {...: 0}
overdue_out(result) ==
  LET row == IF result = <<>> THEN None ELSE [t |-> "DictRow", v |-> result[1]]
  IN IF Truthy(row)
     THEN PyDict([overdue_now |-> ToPy(row.v.overdue_now),
                  borrowed_now |-> ToPy(row.v.borrowed_now),
                  returned_this_month |-> ToPy(row.v.returned_this_month)])
     ELSE PyDict([overdue_now |-> PyInt(0), borrowed_now |-> PyInt(0),
                  returned_this_month |-> PyInt(0)])

\* What the `with conn() ...` block of a one-statement handler can compute
\* on the store holding n rows.
Computed(r, n) ==
  CASE r.path = "/top-books" -> {RowsOf(x) : x \in q_top_books(n)}
    [] r.path = "/borrowings-trend" ->
         {RowsOf(x) : x \in q_borrowings_trend(n, r.arg.v)}
    [] r.path = "/top-categories" -> {RowsOf(x) : x \in q_top_categories(n)}
    [] r.path = "/overdue-stats" -> {overdue_out(x) : x \in q_overdue_stats(n)}

\* Mutant: because takes the first three reasons.
shape_row_three(r) ==
  LET decoded == IF r.reasons.t = "str" THEN PyList(JsonLoads(r.reasons.v))
                 ELSE r.reasons
      rs == IF Truthy(decoded) THEN decoded.v ELSE <<>>
      top == Take(rs, 3)
  IN [id |-> r.id, name |-> r.name, score |-> r.score, reasons |-> decoded,
      because |-> [j \in 1..Len(top) |-> top[j].title]]

\* The loop over rows of recs: decode reasons when it is text, derive because.
shape_row(r) ==
  LET decoded == IF r.reasons.t = "str" THEN PyList(JsonLoads(r.reasons.v))
                 ELSE r.reasons
      rs == IF Truthy(decoded) THEN decoded.v ELSE <<>>
      top == Take(rs, 2)
  IN [id |-> r.id, name |-> r.name, score |-> r.score, reasons |-> decoded,
      because |-> [j \in 1..Len(top) |-> top[j].title]]

\* The rows recs can compute from q_recs on the store holding n rows.
recs_rows(n, uid, wire) ==
  {PyList([j \in 1..Len(result) |-> shape_row(Wire(result[j], wire))]) :
   result \in q_recs(n, uid)}

Step(r, r2, step, status, body) ==
  /\ inflight' = (inflight \ {r}) \cup (IF r2.pc = "done" THEN {} ELSE {r2})
  /\ ev' = [step |-> step, r |-> r2, status |-> status, body |-> body, pre |-> cache]

\* cur.execute(q); fetch: top_books, borrowings_trend, top_categories, overdue_stats.
run_query(id) ==
  \E r \in inflight :
    /\ r.id = id /\ r.pc = "query" /\ r.path # "/recs"
    /\ \E data \in Computed(r, db) :
         Step(r, [r EXCEPT !.pc = "store", !.rows = data, !.queries = 1, !.snap = db],
              "query", 0, None)
    /\ UNCHANGED <<API_KEY, db, inserts, now, ticks, cache, setLog, nreq>>

\* Mutant: the empty answer for a user without history is cached.
recs_user_items_cached(id) ==
  \E r \in inflight :
    /\ r.id = id /\ r.pc = "query" /\ r.path = "/recs"
    /\ LET r2 == [r EXCEPT !.queries = 1, !.snap = db]
       IN IF q_user_items(db, r.arg.v) = {}
          THEN /\ Step(r, [r2 EXCEPT !.pc = "done"], "recs_items", 200, PyList(<<>>))
               /\ cache' = cache_set(r.key, PyList(<<>>))
               /\ setLog' = (r.key :> [data |-> PyList(<<>>), at |-> now,
                                       by |-> r.id]) @@ setLog
          ELSE /\ Step(r, [r2 EXCEPT !.pc = "recs_query"], "recs_items", 0, None)
               /\ UNCHANGED <<cache, setLog>>
    /\ UNCHANGED <<API_KEY, db, inserts, now, ticks, nreq>>

\* cur.execute(q_user_items); if not cur.fetchall(): return jsonify([])
recs_user_items(id) ==
  \E r \in inflight :
    /\ r.id = id /\ r.pc = "query" /\ r.path = "/recs"
    /\ LET r2 == [r EXCEPT !.queries = 1, !.snap = db]
       IN IF q_user_items(db, r.arg.v) = {}
          THEN Step(r, [r2 EXCEPT !.pc = "done"], "recs_items", 200, PyList(<<>>))
          ELSE Step(r, [r2 EXCEPT !.pc = "recs_query"], "recs_items", 0, None)
    /\ UNCHANGED <<API_KEY, db, inserts, now, ticks, cache, setLog, nreq>>

\* cur.execute(q_recs); rows = [...]; the shaping loop.
recs_query(id) ==
  \E r \in inflight :
    /\ r.id = id /\ r.pc = "recs_query"
    /\ \E wire \in {"json", "text"} : \E data \in recs_rows(db, r.arg.v, wire) :
         Step(r, [r EXCEPT !.pc = "store", !.queries = 2, !.snap = db, !.wire = wire,
                           !.rows = data],
              "query", 0, None)
    /\ UNCHANGED <<API_KEY, db, inserts, now, ticks, cache, setLog, nreq>>

\* Mutant: the failure is swallowed and an empty result is answered.
db_error_masked(id) ==
  \E r \in inflight :
    /\ r.id = id /\ r.pc \in {"query", "recs_query"}
    /\ Step(r, [r EXCEPT !.pc = "done"], "db_error", 200, PyList(<<>>))
    /\ UNCHANGED <<API_KEY, db, inserts, now, ticks, cache, setLog, nreq>>

\* conn() or cur.execute raises: nothing catches it, the request ends in
\* Flask's 500 response.
db_error(id) ==
  \E r \in inflight :
    /\ r.id = id /\ r.pc \in {"query", "recs_query"}
    /\ Step(r, [r EXCEPT !.pc = "done"], "db_error", 500,
            PyStr("Internal Server Error"))
    /\ UNCHANGED <<API_KEY, db, inserts, now, ticks, cache, setLog, nreq>>

\* cache_set(key, rows); return jsonify(rows)
store(id) ==
  \E r \in inflight :
    /\ r.id = id /\ r.pc = "store"
    /\ cache' = cache_set(r.key, r.rows)
    /\ setLog' = (r.key :> [data |-> r.rows, at |-> now, by |-> r.id]) @@ setLog
    /\ Step(r, [r EXCEPT !.pc = "done"], "store", 200, r.rows)
    /\ UNCHANGED <<API_KEY, db, inserts, now, ticks, nreq>>

(***************************************************************************)
(* The environment: the wall clock and the other writers of the store.     *)
(***************************************************************************)
Tick ==
  /\ ticks < MaxTicks
  /\ \E d \in TickSteps : now' = now + d
  /\ ticks' = ticks + 1
  /\ ev' = NoEvent
  /\ UNCHANGED <<API_KEY, db, inserts, cache, setLog, inflight, nreq>>

InsertBorrowing ==
  /\ inserts < MaxInserts
  /\ db < MaxRows
  /\ db' = db + 1
  /\ inserts' = inserts + 1
  /\ ev' = NoEvent
  /\ UNCHANGED <<API_KEY, now, ticks, cache, setLog, inflight, nreq>>

Init ==
  /\ API_KEY \in {None, PyStr("secret")}
  /\ db \in InitialRows
  /\ inserts = 0
  /\ now = 0
  /\ ticks = 0
  /\ cache = EmptyMap
  /\ setLog = EmptyMap
  /\ inflight = {}
  /\ nreq = 0
  /\ ev = NoEvent

Next ==
  \/ \E req \in RequestsTo("/health") : health(req)
  \/ \E req \in RequestsTo("/") : root(req)
  \/ \E req \in RequestsTo("/top-books") : top_books(req)
  \/ \E req \in RequestsTo("/recs") : recs(req)
  \/ \E req \in RequestsTo("/borrowings-trend") : borrowings_trend(req)
  \/ \E req \in RequestsTo("/top-categories") : top_categories(req)
  \/ \E req \in RequestsTo("/overdue-stats") : overdue_stats(req)
  \/ \E id \in 1..MaxRequests : run_query(id)
  \/ \E id \in 1..MaxRequests : recs_user_items(id)
  \/ \E id \in 1..MaxRequests : recs_query(id)
  \/ \E id \in 1..MaxRequests : db_error(id)
  \/ \E id \in 1..MaxRequests : store(id)
  \/ Tick
  \/ InsertBorrowing

Spec == Init /\ [][Next]_vars

(***************************************************************************)
(* Properties. ev is the step that led to the current state: ev.r is the   *)
(* request it belongs to, ev.status its response (0: none sent yet) and    *)
(* ev.pre the cache before the step.                                       *)
(***************************************************************************)
InFlightIds == {r.id : r \in inflight}

\* The request carries the configured key, or no key is configured.
Authorized(req) ==
  \/ API_KEY = None
  \/ API_KEY.v = ""
  \/ /\ "X-API-KEY" \in DOMAIN req.headers
     /\ req.headers["X-API-KEY"] = API_KEY

\* user_id is present and the text of a positive integer.
PositiveUserId(args) ==
  /\ "user_id" \in DOMAIN args
  /\ ParseInt(args["user_id"]) # None
  /\ ParseInt(args["user_id"]).v > 0

\* The TTLs the endpoints are documented with.
DocumentedTtl(path) ==
  CASE path \in {"/top-books", "/recs", "/overdue-stats"} -> 60
    [] path = "/borrowings-trend" -> 120
    [] path = "/top-categories" -> 300

\* The items a user has borrowed in the store holding n rows.
BorrowedBy(n, uid) ==
  {i \in Items : \E b \in 1..n : RowPool[b].user_id = uid /\ RowPool[b].item_id = i}

RECURSIVE SumOfCounts(_)
SumOfCounts(reasons) ==
  IF reasons = <<>> THEN 0 ELSE Head(reasons).count + SumOfCounts(Tail(reasons))

\* C1: with an API key configured, a request to a protected route whose
\* X-API-KEY header is missing or differs from the key is answered 401
\* {"error": "Unauthorized"} without reading or writing the cache and without
\* a query; /health and / answer 200 whatever the header.
C1_UnauthorizedDoesNothing ==
  ev.step = "entry" =>
    /\ (ev.req.path \in Protected /\ ~Authorized(ev.req)) =>
         /\ ev.status = 401
         /\ ev.body = PyDict([error |-> "Unauthorized"])
         /\ ev.r.reads = 0
         /\ ev.r.queries = 0
         /\ cache = ev.pre
         /\ ev.r.id \notin InFlightIds
    /\ ev.req.path \in {"/health", "/"} => ev.status = 200

\* A protected route with a cached entry is refused for a missing header.
C1_Witness ==
  /\ ev.step = "entry"
  /\ ev.status = 401
  /\ ev.req.path = "/top-books"
  /\ "X-API-KEY" \notin DOMAIN ev.req.headers
  /\ <<"top-books">> \in DOMAIN cache

\* C2: after cache_set(k, v) at time s, cache_get(k, t) returns v while
\* now - s <= t and a miss once now - s > t; cache_get of a key never set is
\* a miss.
C2_CacheGetWithinTtl ==
  \A k \in DOMAIN setLog \cup {<<"top-books">>, <<"recs:", 1>>, <<"never-set">>} :
    \A t \in {1, 60, 120, 300} :
      cache_get(k, t) =
        IF k \in DOMAIN setLog /\ now - setLog[k].at <= t
        THEN setLog[k].data
        ELSE None

\* An entry whose age equals one TTL and exceeds none of the larger ones.
C2_Witness ==
  \E k \in DOMAIN setLog :
    /\ now - setLog[k].at = 60
    /\ cache_get(k, 60) = setLog[k].data

\* C3: once a result is stored, an authorized request for the same endpoint
\* and parameters arriving within the endpoint's TTL is answered with the
\* stored payload, whatever it is, and goes to no query.
C3_FreshEntryIsServed ==
  ( /\ ev.step = "entry"
    /\ ev.req.path \in Protected
    /\ Authorized(ev.req)
    /\ ev.r.key \in DOMAIN setLog
    /\ now - setLog[ev.r.key].at <= DocumentedTtl(ev.req.path) )
  => /\ ev.status = 200
     /\ ev.body = setLog[ev.r.key].data
     /\ ev.r.id \notin InFlightIds

\* C4: a /recs request that finds no borrowing of the user answers [] and
\* leaves the cache as it was; unless another request has stored under the
\* key since this one looked it up, the next lookup of the key misses too.
C4_NoHistoryNotCached ==
  ( /\ ev.step = "recs_items"
    /\ BorrowedBy(ev.r.snap, ev.r.arg.v) = {} )
  => /\ ev.status = 200
     /\ ev.body = PyList(<<>>)
     /\ cache = ev.pre
     /\ ev.r.id \notin InFlightIds
     /\ (Get(cache, ev.r.key) = ev.r.seen => ~IsHit(cache_get(ev.r.key, 60)))

\* A no-history answer while the cache holds entries of other requests.
C4_Witness ==
  /\ ev.step = "recs_items"
  /\ ev.status = 200
  /\ ev.r.arg.v = 2
  /\ cache # EmptyMap

\* C5: /recs answers 400 when user_id is missing, not an integer, or not
\* positive, and then reads no cache, writes none and queries nothing.
C5_NonPositiveUserIdRejected ==
  ( /\ ev.step = "entry"
    /\ ev.req.path = "/recs"
    /\ Authorized(ev.req)
    /\ ~PositiveUserId(ev.req.args) )
  => /\ ev.status = 400
     /\ ev.r.reads = 0
     /\ ev.r.queries = 0
     /\ cache = ev.pre
     /\ ev.r.id \notin InFlightIds

\* C6: /overdue-stats computed on a store without borrowings is
\* {overdue_now: 0, borrowed_now: 0, returned_this_month: 0}, and that is
\* what the cache holds.
C6_EmptyStoreGivesZeros ==
  ( /\ ev.step = "store"
    /\ ev.r.path = "/overdue-stats"
    /\ ev.r.snap = 0 )
  => LET zeros == PyDict([overdue_now |-> PyInt(0), borrowed_now |-> PyInt(0),
                          returned_this_month |-> PyInt(0)])
     IN /\ ev.body = zeros
        /\ cache[ev.r.key].v[1] = zeros

\* C7: a failing connection or query ends the request with a 5xx response,
\* the request takes no further step (no retry) and the cache is as before.
C7_DbFailureIs5xx ==
  ev.step = "db_error" =>
    /\ ev.status >= 500 /\ ev.status <= 599
    /\ ev.r.id \notin InFlightIds
    /\ cache = ev.pre

\* The second statement of recs fails while the cache holds entries.
C7_Witness ==
  /\ ev.step = "db_error"
  /\ ev.r.path = "/recs"
  /\ ev.r.queries = 1
  /\ cache # EmptyMap

\* C8: in every row /recs returns, because is the titles of the first
\* min(2, len(reasons)) reasons, in their order.
C8_BecauseIsPrefixOfReasons ==
  ( /\ ev.step # "none"
    /\ ev.r.path = "/recs"
    /\ ev.status = 200 )
  => \A j \in 1..Len(ev.body.v) :
       LET row == ev.body.v[j]
       IN /\ row.reasons.t = "list"
          /\ Len(row.because) = Min(2, Len(row.reasons.v))
          /\ \A i \in 1..Len(row.because) : row.because[i] = row.reasons.v[i].title

\* A row with three reasons that arrived as JSON text.
C8_Witness ==
  /\ ev.step = "store"
  /\ ev.r.path = "/recs"
  /\ ev.r.wire = "text"
  /\ \E j \in 1..Len(ev.body.v) : Len(ev.body.v[j].reasons.v) >= 3

\* C9: the rows /recs computes are at most 5, in descending score, each an
\* item the user has not borrowed, its score the sum of its reasons' counts;
\* on the store {u1->A, u1->B, u2->A, u2->C} user 1 gets item C with score 1,
\* the single reason A (count 1) and because = ["A"].
C9_RecsRows ==
  ( /\ ev.step = "store"
    /\ ev.r.path = "/recs" )
  => LET rows == ev.body.v
     IN /\ Len(rows) <= 5
        /\ \A j \in 1..Len(rows) :
             /\ rows[j].id \notin BorrowedBy(ev.r.snap, ev.r.arg.v)
             /\ rows[j].score = SumOfCounts(rows[j].reasons.v)
        /\ \A j \in 1..(Len(rows) - 1) : rows[j].score >= rows[j + 1].score
        /\ (ev.r.snap = 4 /\ ev.r.arg.v = 1) =>
             rows = <<[id |-> 3, name |-> "C", score |-> 1,
                       reasons |-> PyList(<<[item_id |-> 1, title |-> "A",
                                             count |-> 1]>>),
                       because |-> <<"A">>]>>

\* Six items qualify and five are returned.
C9_Witness ==
  /\ ev.step = "store"
  /\ ev.r.path = "/recs"
  /\ Len(ev.body.v) = 5
  /\ ev.r.arg.v = 1
  /\ ev.body.v[5].score > 1

\* C10 as stated: of two concurrent requests that missed on the same key,
\* each one computes and stores: the one whose statements succeed first
\* ends by storing.
C10_BothStore ==
  ( /\ ev.step \notin {"none", "entry", "db_error"}
    /\ ev.status # 0
    /\ ev.r.reads = 1
    /\ \E r \in inflight : r.key = ev.r.key )
  => ev.step = "store"

\* C10, amended: a request that missed ends by storing unless its query
\* fails or it is a /recs request that finds no history. A store puts the
\* payload the request computed itself, with the time of the store, under its
\* key, answers with that payload and leaves every other entry as it was; no
\* other step changes the cache, which so holds the last store under each key.
C10_LastStoreWins ==
  /\ (ev.step # "none" /\ ev.status # 0 /\ ev.r.reads = 1 /\ ev.step # "entry") =>
       \/ ev.step = "store"
       \/ ev.step = "db_error"
       \/ ev.step = "recs_items" /\ BorrowedBy(ev.r.snap, ev.r.arg.v) = {}
  /\ ev.step = "store" =>
       /\ ev.status = 200
       /\ ev.body = ev.r.rows
       /\ ev.body \in (IF ev.r.path = "/recs"
                       THEN recs_rows(ev.r.snap, ev.r.arg.v, ev.r.wire)
                       ELSE Computed(ev.r, ev.r.snap))
       /\ ev.r.key \in DOMAIN cache
       /\ cache[ev.r.key] = PyTuple(<<ev.body, now>>)
       /\ \A k \in DOMAIN ev.pre \ {ev.r.key} :
            k \in DOMAIN cache /\ cache[k] = ev.pre[k]
  /\ ev.step \notin {"store", "none"} => cache = ev.pre
  /\ DOMAIN cache = DOMAIN setLog
  /\ \A k \in DOMAIN cache : cache[k] = PyTuple(<<setLog[k].data, setLog[k].at>>)

\* The second of two racing requests overwrites what the first stored
\* after both had missed, with a different payload.
C10_Witness ==
  /\ ev.step = "store"
  /\ ev.r.key \in DOMAIN ev.pre
  /\ ev.pre[ev.r.key] # ev.r.seen
  /\ ev.pre[ev.r.key].v[1] # ev.body

====
